---------------------------- MODULE Spec2Model ----------------------------
(***************************************************************************)
(* Model of src/main.py, the Streamlit "AI Resume Optimizer" script.       *)
(*                                                                         *)
(* The script is re-run from the top on every widget interaction.  The     *)
(* session state that survives between runs is the uploaded file and the   *)
(* job description; what one run renders is the sequence display.          *)
(* Pressing the analyze button runs the handler of lines 115-230: it       *)
(* blocks at model.generate_content (line 174) until the service answers   *)
(* or fails, so the handler is two steps, PressAnalyze (lines 115-174) and *)
(* LLMReturns / LLMFails (lines 174-230).                                  *)
(*                                                                         *)
(* Text is a sequence of lexical units.  The units of a model reply are    *)
(* the three pieces of the fence pattern (FENCE, the three backticks,      *)
(* "json" and "\n"), the heading marker "###" (plain text that is no       *)
(* JSON), and "{...}", the text of one complete JSON document.  No unit    *)
(* but FENCE holds a backtick and none but "\n" a line break, so the       *)
(* regular expression of line 178 matches on the characters exactly where  *)
(* Search matches on the units.  What a "{...}" unit decodes to is drawn   *)
(* from JsonDocs when json.loads reads it.                                 *)
(***************************************************************************)
EXTENDS Integers, Sequences, FiniteSets, TLC

VARIABLES
    uploaded_file,          \* st.file_uploader value (line 107)
    job_desc,               \* st.text_area value (line 110)
    pc,                     \* "idle" | "calling" (blocked at line 174) | "done"
    display,                \* elements rendered by the current run, in order
    llm_calls,              \* generate_content calls made by the current analysis
    resume_text,            \* line 121
    response_text,          \* line 175
    data,                   \* line 184
    scores,                 \* line 185
    section_data,           \* line 186
    qualitative_feedback    \* line 187

vars == <<uploaded_file, job_desc, pc, display, llm_calls, resume_text,
          response_text, data, scores, section_data, qualitative_feedback>>

-----------------------------------------------------------------------------
(* Bounds *)

\* Longest model reply, counted in segments of ReplySegments.
MaxSegs == 3

-----------------------------------------------------------------------------
(* Text *)

\* Three backticks (a backtick cannot be written in a TLA+ string).
FENCE == "<fence>"
JSONTAG == "json"
NL == "\n"
HEADING == "###"
DOC == "{...}"
SPACE == " "
WORD == "word"

\* str.strip() without arguments removes these (lines 122, 175, 187).
Whitespace == {NL, SPACE}

RECURSIVE LStrip(_)
LStrip(s) ==
    IF s # <<>> /\ Head(s) \in Whitespace THEN LStrip(Tail(s)) ELSE s

RECURSIVE RStrip(_)
RStrip(s) ==
    IF s # <<>> /\ s[Len(s)] \in Whitespace
    THEN RStrip(SubSeq(s, 1, Len(s) - 1))
    ELSE s

Strip(s) == RStrip(LStrip(s))

-----------------------------------------------------------------------------
(* Python values: every value is a record with a type field. *)

None == [type |-> "None"]
Str(s) == [type |-> "str", s |-> s]
Int_(n) == [type |-> "int", n |-> n]
List_ == [type |-> "list"]
Dict(items) == [type |-> "dict", items |-> items]
EmptyDict == Dict([k \in {} |-> 0])

\* Python truthiness: None, "", 0, [] and {} are false.
Truthy(v) ==
    CASE v.type = "None" -> FALSE
      [] v.type = "str" -> v.s # <<>>
      [] v.type = "int" -> v.n # 0
      [] v.type = "list" -> FALSE
      [] v.type = "dict" -> DOMAIN v.items # {}

\* Mutant of IsBlank: the test without its strip().
IsBlank_no_strip(text) == ~Truthy(text)

\* Python's "not text or not text.strip()" (lines 55, 122).
IsBlank(text) == ~Truthy(text) \/ Strip(text.s) = <<>>

\* d.get(key, default) of a dict; any other type has no attribute get.
HasGet(v) == v.type = "dict"
Get(d, key, default) ==
    IF key \in DOMAIN d.items THEN d.items[key] ELSE default

-----------------------------------------------------------------------------
(* re.search(r"FENCE json\n(.*?)\nFENCE", response_text, re.DOTALL), line 178 *)

NoMatch == [found |-> FALSE, start |-> 0, end |-> 0, group1 |-> <<>>]

\* Positions where "FENCE json \n" starts.
Openings(s) ==
    {i \in 1..Len(s) : i + 2 <= Len(s) /\ s[i] = FENCE /\ s[i+1] = JSONTAG
                                        /\ s[i+2] = NL}

\* Mutant of Closings: the line break after "json" may also be the one
\* before the closing fence.
Closings_shared(s, i) ==
    {k \in (i+2)..Len(s) : k + 1 <= Len(s) /\ s[k] = NL /\ s[k+1] = FENCE}

\* Positions k of a closing "\n FENCE" for the opening at i: the group is
\* s[i+3 .. k-1], so k >= i+3 (the opening's own line break is consumed).
Closings(s, i) ==
    {k \in (i+3)..Len(s) : k + 1 <= Len(s) /\ s[k] = NL /\ s[k+1] = FENCE}

Min(S) == CHOOSE x \in S : \A y \in S : x <= y
Max(S) == CHOOSE x \in S : \A y \in S : x >= y

\* Mutant of Search: a greedy group, (.*) for (.*?).
Search_greedy(s) ==
    LET starts == {i \in Openings(s) : Closings(s, i) # {}}
    IN IF starts = {} THEN NoMatch
       ELSE LET i == Min(starts)
                k == Max(Closings(s, i))
            IN [found |-> TRUE, start |-> i, end |-> k + 1,
                group1 |-> SubSeq(s, i + 3, k - 1)]

\* Leftmost start that can match at all; for it, the lazy group takes the
\* nearest closing.  start and end are 1-based, end is the last unit matched.
Search(s) ==
    LET starts == {i \in Openings(s) : Closings(s, i) # {}}
    IN IF starts = {} THEN NoMatch
       ELSE LET i == Min(starts)
                k == Min(Closings(s, i))
            IN [found |-> TRUE, start |-> i, end |-> k + 1,
                group1 |-> SubSeq(s, i + 3, k - 1)]

\* response_text[json_match.end():], line 187.
After(s, m) == SubSeq(s, m.end + 1, Len(s))

-----------------------------------------------------------------------------
(* JSON documents the model may emit, as json.loads decodes them *)

ScoreNames ==
    {"Clarity_and_Formatting", "Impact_and_Achievements", "ATS_Friendliness",
     "Job_Fit"}

\* One reply's scores when all four are given: in range, on the edge, and
\* out of the requested 1..10 on both sides.
GivenScores ==
    [n \in ScoreNames |->
        CASE n = "Clarity_and_Formatting" -> 11
          [] n = "Impact_and_Achievements" -> 0 - 3
          [] n = "ATS_Friendliness" -> 7
          [] n = "Job_Fit" -> 10]

\* A "scores" object holding any subset of the four names.
ScoreDicts == {Dict([n \in S |-> GivenScores[n]]) : S \in SUBSET ScoreNames}

\* What may stand under "scores": absent, a number, or an object.
Absent == [type |-> "absent"]
ScoresMembers == {Absent, Int_(5)} \cup ScoreDicts

\* What may stand under "section_analysis": absent, {} or an object.
SectionMembers ==
    {Absent, EmptyDict,
     Dict([l \in {"Experience", "Skills"} |->
              IF l = "Experience" THEN 60 ELSE 40])}

Object(sc, se) ==
    Dict([k \in {x \in {"scores", "section_analysis"} :
                    (x = "scores" /\ sc # Absent)
                    \/ (x = "section_analysis" /\ se # Absent)} |->
             IF k = "scores" THEN sc ELSE se])

\* Decoded documents: a top-level array, or an object.
JsonDocs ==
    {List_} \cup {Object(sc, se) : sc \in ScoresMembers, se \in SectionMembers}

\* json.loads(json_str), line 184.  JSON allows white space around the one
\* value; anything else (nothing, plain text, a fence, two documents) raises
\* JSONDecodeError.  The result is the set of outcomes.
JSONDecodeError == [type |-> "JSONDecodeError"]
json_loads(json_str) ==
    IF Strip(json_str) = <<DOC>> THEN JsonDocs ELSE {JSONDecodeError}

-----------------------------------------------------------------------------
(* Inputs *)

\* What the extraction library makes of an uploaded file's bytes.
FileTexts == {<<>>, <<SPACE>>, <<WORD>>}

\* An upload: its media type, whether its bytes can be read at all (by
\* PyPDF2 for a PDF, as UTF-8 otherwise), and the text they hold.
File(mime, readable, text) ==
    [type |-> "file", mime |-> mime, readable |-> readable, text |-> text]

Files ==
    {File(mime, TRUE, t) : mime \in {"application/pdf", "text/plain"},
                           t \in FileTexts}
    \cup {File(mime, FALSE, <<>>) : mime \in {"application/pdf", "text/plain"}}

JobDescs == {<<>>, <<WORD>>}

\* Pieces a reply is put together from.
ReplySegments ==
    {<<FENCE>>, <<JSONTAG>>, <<NL>>, <<HEADING>>, <<DOC>>,
     <<FENCE, JSONTAG, NL>>, <<NL, FENCE>>,
     <<FENCE, JSONTAG, NL, DOC, NL, FENCE>>}

RECURSIVE Flatten(_)
Flatten(ss) == IF ss = <<>> THEN <<>> ELSE Head(ss) \o Flatten(Tail(ss))

\* response.text of every reply of at most MaxSegs segments.
Replies ==
    {Flatten(ss) : ss \in UNION {[1..n -> ReplySegments] : n \in 0..MaxSegs}}

-----------------------------------------------------------------------------
(* Rendered elements *)

Element(kind, label, text, value) ==
    [kind |-> kind, label |-> label, text |-> text, value |-> value]

Warning(label) == Element("warning", label, <<>>, 0)
Error(label) == Element("error", label, <<>>, 0)
Markdown(text) == Element("markdown", "", text, 0)
Write(label) == Element("write", label, <<>>, 0)
Divider == Element("divider", "", <<>>, 0)
Header(label) == Element("header", label, <<>>, 0)
Subheader(label) == Element("subheader", label, <<>>, 0)
Pyplot == Element("pyplot", "", <<>>, 0)

\* What a call did: the elements it rendered, whether it raised, its value.
Returned(out, ret) == [out |-> out, raised |-> FALSE, ret |-> ret]
Raised(out) == [out |-> out, raised |-> TRUE, ret |-> None]


\* Runs b after a unless a raised.
Then(a, b) ==
    IF a.raised THEN a
    ELSE [out |-> a.out \o b.out, raised |-> b.raised, ret |-> b.ret]

-----------------------------------------------------------------------------
(* Helper functions of the script *)

Figure(chart, title, value) ==
    [type |-> "Figure", chart |-> chart, title |-> title, value |-> value]

\* st.plotly_chart(figure_or_data): anything that is no figure is rejected
\* by plotly with an exception.
st_plotly_chart(fig) ==
    IF fig.type = "Figure"
    THEN Returned(<<Element("plotly_chart", fig.title, <<>>, fig.value)>>, None)
    ELSE Raised(<<>>)

create_score_gauge(score, title) == Figure("gauge", title, score)

\* WordCloud and pyplot are taken to draw any text that is not blank.
create_word_cloud(text, title) ==
    IF IsBlank(text)
    THEN Returned(<<Element("write",
                            "Not enough text to generate a word cloud.",
                            <<title>>, 0)>>, None)
    ELSE Returned(<<Pyplot>>, None)

create_donut_chart(section, title) ==
    IF ~Truthy(section)
    THEN Returned(<<Write("No section analysis data available.")>>, None)
    ELSE IF section.type # "dict"
    THEN Raised(<<>>)                     \* no attribute keys
    ELSE Returned(<<>>, Figure("donut", title, 0))

extract_text_from_pdf(file) ==
    IF file.readable
    THEN Returned(<<>>, Str(file.text))
    ELSE Returned(<<Error("Error reading PDF file")>>, None)

extract_text_from_file(file) ==
    IF file.mime = "application/pdf" THEN extract_text_from_pdf(file)
    ELSE IF file.readable THEN Returned(<<>>, Str(file.text))
    ELSE Raised(<<>>)                     \* UnicodeDecodeError

-----------------------------------------------------------------------------
(* The analyze handler, lines 115-230 *)

UnexpectedError == Error("An unexpected error occurred")
DecodeError == Error("Error decoding the analysis data from the AI. Please try again.")
NoTextError == Error("Could not extract text from the file. It might be empty or image-based.")
ParseError == Error("Could not parse the AI's response. Displaying raw feedback:")
UploadWarning == Warning("Please upload your resume first.")

\* Mutant of Gauge: scores[name] for scores.get(name, 0).
Gauge_subscript(sc, name, title) ==
    IF ~HasGet(sc) THEN Raised(<<>>)
    ELSE IF name \notin DOMAIN sc.items THEN Raised(<<>>)      \* KeyError
    ELSE st_plotly_chart(create_score_gauge(sc.items[name], title))

\* scores.get(name, 0) shown as a gauge (lines 195-201).
Gauge(sc, name, title) ==
    IF ~HasGet(sc) THEN Raised(<<>>)      \* no attribute get
    ELSE st_plotly_chart(create_score_gauge(Get(sc, name, 0), title))

\* Mutant of ShowFeedback: the text is cut at its heading markers and the
\* markers are dropped.
ShowFeedback_split(feedback) ==
    Returned(<<Header("Detailed Feedback"),
               Markdown(SelectSeq(feedback, LAMBDA u : u # HEADING))>>, None)

\* Lines 223-225: the feedback text, whole, as one markdown element.
ShowFeedback(feedback) ==
    Returned(<<Header("Detailed Feedback"), Markdown(feedback)>>, None)

\* Lines 189-225: the scorecard, the word clouds, the donut, the feedback.
ShowScorecard(sc, se, resume, job, feedback) ==
    LET head == Returned(<<Divider, Header("Your Visual Scorecard")>>, None)
        gauges ==
            Then(Gauge(sc, "Clarity_and_Formatting", "Clarity"),
            Then(Gauge(sc, "Impact_and_Achievements", "Impact"),
            Then(Gauge(sc, "ATS_Friendliness", "ATS Score"),
                 Gauge(sc, "Job_Fit", "Job Fit"))))
        clouds ==
            Then(Returned(<<Divider, Header("Keyword Analysis"),
                            Subheader("Your Resume's Keywords")>>, None),
            Then(create_word_cloud(resume, "Your Resume"),
            Then(Returned(<<Subheader("Job Description's Keywords")>>, None),
                 create_word_cloud(Str(job), "Job Description"))))
        donut == create_donut_chart(se, "Resume Content Distribution")
        layout ==
            Then(Returned(<<Divider, Header("Layout Analysis")>>, None),
            Then(donut, st_plotly_chart(donut.ret)))
    IN Then(head, Then(gauges, Then(clouds, Then(layout,
            ShowFeedback(feedback)))))


\* The locals of one run, before any is assigned.
NoLocals ==
    [response_text |-> None, data |-> None, scores |-> None,
     section_data |-> None, qualitative_feedback |-> None]

\* Lines 175-230 for the reply text and for what json.loads makes of the
\* matched group (decoded, looked at only when there is a match): the
\* elements rendered, the except handlers' included, and the locals assigned.
ShowReply(text, decoded, resume, job) ==
    LET rt == Strip(text)
        json_match == Search(rt)
        l0 == [NoLocals EXCEPT !.response_text = Str(rt)]
    IN IF ~json_match.found
       THEN [out |-> <<ParseError, Markdown(rt)>>, locals |-> l0]
       ELSE IF decoded.type = "JSONDecodeError"
       THEN [out |-> <<DecodeError>>, locals |-> l0]
       ELSE IF ~HasGet(decoded)
       THEN [out |-> <<UnexpectedError>>,
             locals |-> [l0 EXCEPT !.data = decoded]]
       ELSE LET sc == Get(decoded, "scores", EmptyDict)
                se == Get(decoded, "section_analysis", EmptyDict)
                qf == Strip(After(rt, json_match))
                r == ShowScorecard(sc, se, resume, job, qf)
            IN [out |-> r.out \o (IF r.raised THEN <<UnexpectedError>> ELSE <<>>),
                locals |-> [l0 EXCEPT !.data = decoded, !.scores = sc,
                                      !.section_data = se,
                                      !.qualitative_feedback = Str(qf)]]

-----------------------------------------------------------------------------
(* State machine *)

SetLocals(l) ==
    /\ response_text' = l.response_text
    /\ data' = l.data
    /\ scores' = l.scores
    /\ section_data' = l.section_data
    /\ qualitative_feedback' = l.qualitative_feedback

Init ==
    /\ uploaded_file = None
    /\ job_desc = <<>>
    /\ pc = "idle"
    /\ display = <<>>
    /\ llm_calls = 0
    /\ resume_text = None
    /\ response_text = None
    /\ data = None
    /\ scores = None
    /\ section_data = None
    /\ qualitative_feedback = None


\* A widget interaction other than the button re-runs the script with
\* analyze_button false: only the static page is rendered.
Rerun ==
    /\ pc' = "idle"
    /\ display' = <<>>
    /\ llm_calls' = 0
    /\ resume_text' = None
    /\ SetLocals(NoLocals)

\* Line 107: the user uploads a file, or removes it.
Upload ==
    /\ pc # "calling"
    /\ \E f \in Files \cup {None} : uploaded_file' = f
    /\ UNCHANGED job_desc
    /\ Rerun

\* Line 110: the user edits the job description.
EditJobDesc ==
    /\ pc # "calling"
    /\ \E j \in JobDescs : job_desc' = j
    /\ UNCHANGED uploaded_file
    /\ Rerun

\* Lines 115-174: the button is pressed; the run ends here unless it gets
\* as far as the call of the model, where it blocks.
PressAnalyze ==
    /\ pc # "calling"
    /\ UNCHANGED <<uploaded_file, job_desc>>
    /\ SetLocals(NoLocals)
    /\ IF uploaded_file = None
       THEN /\ display' = <<UploadWarning>>
            /\ pc' = "done"
            /\ llm_calls' = 0
            /\ resume_text' = None
       ELSE LET r == extract_text_from_file(uploaded_file)
            IN IF r.raised
               THEN /\ display' = r.out \o <<UnexpectedError>>
                    /\ pc' = "done"
                    /\ llm_calls' = 0
                    /\ resume_text' = None
               ELSE IF IsBlank(r.ret)
               THEN /\ display' = r.out \o <<NoTextError>>
                    /\ pc' = "done"
                    /\ llm_calls' = 0
                    /\ resume_text' = r.ret
               ELSE /\ display' = r.out
                    /\ pc' = "calling"
                    /\ llm_calls' = 1
                    /\ resume_text' = r.ret

\* Lines 174-230: generate_content returns a reply.
LLMReturns ==
    /\ pc = "calling"
    /\ \E reply \in Replies :
         \E decoded \in json_loads(Search(Strip(reply)).group1) :
            LET r == ShowReply(reply, decoded, resume_text, job_desc)
            IN /\ display' = display \o r.out
               /\ SetLocals(r.locals)
    /\ pc' = "done"
    /\ UNCHANGED <<uploaded_file, job_desc, llm_calls, resume_text>>

\* Mutant of LLMFails: a failed call is made again.
LLMFails_retry ==
    /\ pc = "calling"
    /\ llm_calls < 3
    /\ llm_calls' = llm_calls + 1
    /\ UNCHANGED <<uploaded_file, job_desc, pc, display, resume_text,
                   response_text, data, scores, section_data,
                   qualitative_feedback>>

\* Lines 174-175 raise (transport, quota, a blocked reply): line 229.
LLMFails ==
    /\ pc = "calling"
    /\ display' = display \o <<UnexpectedError>>
    /\ pc' = "done"
    /\ UNCHANGED <<uploaded_file, job_desc, llm_calls, resume_text,
                   response_text, data, scores, section_data,
                   qualitative_feedback>>

Next == Upload \/ EditJobDesc \/ PressAnalyze \/ LLMReturns \/ LLMFails

Spec == Init /\ [][Next]_vars

-----------------------------------------------------------------------------
(* Vocabulary of the properties, stated on the text and on what is shown, *)
(* not through the operators above                                         *)

\* s[i..] opens a fenced json block that s[k..k+1] closes.
IsBlock(s, i, k) ==
    /\ i >= 1 /\ i + 3 <= k /\ k + 1 <= Len(s)
    /\ s[i] = FENCE /\ s[i+1] = JSONTAG /\ s[i+2] = NL
    /\ s[k] = NL /\ s[k+1] = FENCE

\* Where a block may open and where it may then close.
OpenAt(s) == {i \in 1..Len(s) : s[i] = FENCE}
CloseAfter(s, i) == {k \in (i + 3)..Len(s) : s[k] = NL}

HasFencedBlock(s) ==
    \E i \in OpenAt(s) : \E k \in CloseAfter(s, i) : IsBlock(s, i, k)

\* The leftmost block and, of those starting there, the shortest.
IsFirstBlock(s, i, k) ==
    /\ IsBlock(s, i, k)
    /\ \A i2 \in OpenAt(s) : \A k2 \in CloseAfter(s, i2) :
          IsBlock(s, i2, k2) => (i < i2 \/ (i = i2 /\ k <= k2))

\* The text is one JSON document, white space around it allowed.
IsJson(s) ==
    \E i \in 1..Len(s) :
        /\ s[i] = DOC
        /\ \A j \in 1..Len(s) : j # i => s[j] \in Whitespace

Shown(e) == \E i \in 1..Len(display) : display[i] = e
ShownKind(kind) == \E i \in 1..Len(display) : display[i].kind = kind
CountKind(kind) == Cardinality({i \in 1..Len(display) : display[i].kind = kind})

\* A run of the handler is over and it had a reply to parse.
Replied == pc = "done" /\ response_text.type = "str"

\* Gauges, word clouds and donut are charts; the feedback panel is a
\* markdown element under the "Detailed Feedback" header.
NoScorecardElement ==
    /\ ~ShownKind("plotly_chart")
    /\ ~ShownKind("pyplot")
    /\ ~ShownKind("header")
    /\ ~ShownKind("write")

-----------------------------------------------------------------------------
(* C1 *)

\* C1: a reply holding no fenced json block ends with the parse error
\* followed by the reply text itself, unchanged, and nothing of a scorecard.
C1_NoBlockShowsRawReply ==
    (Replied /\ ~HasFencedBlock(response_text.s)) =>
        /\ display = <<ParseError, Markdown(response_text.s)>>
        /\ NoScorecardElement
        /\ data = None /\ scores = None /\ qualitative_feedback = None

\* C1 witness: a near miss (opening fence and tag, no line break before the
\* closing fence) was shown raw.
C1_Witness ==
    /\ Replied
    /\ response_text.s = <<FENCE, JSONTAG, NL, FENCE>>
    /\ Shown(Markdown(<<FENCE, JSONTAG, NL, FENCE>>))

-----------------------------------------------------------------------------
(* C2, C3, C4 *)

\* The first fenced block of the reply holds valid JSON / holds none.
FirstBlockIsJson ==
    LET s == response_text.s
    IN \E i \in OpenAt(s) : \E k \in CloseAfter(s, i) :
          IsFirstBlock(s, i, k) /\ IsJson(SubSeq(s, i + 3, k - 1))

FirstBlockIsNotJson ==
    LET s == response_text.s
    IN \E i \in OpenAt(s) : \E k \in CloseAfter(s, i) :
          IsFirstBlock(s, i, k) /\ ~IsJson(SubSeq(s, i + 3, k - 1))

RawReplyShown == Shown(Markdown(response_text.s))

\* C2: a reply whose first fenced block holds no valid JSON ends with the
\* decode error shown and the raw reply shown with it as a fallback.
C2_DecodeErrorKeepsRawReply ==
    (Replied /\ FirstBlockIsNotJson) =>
        (Shown(DecodeError) /\ RawReplyShown)

GaugeTitle(n) ==
    CASE n = "Clarity_and_Formatting" -> "Clarity"
      [] n = "Impact_and_Achievements" -> "Impact"
      [] n = "ATS_Friendliness" -> "ATS Score"
      [] n = "Job_Fit" -> "Job Fit"

GaugeShown(n, value) == Shown(Element("plotly_chart", GaugeTitle(n), <<>>, value))

\* The decoded document is an object whose "scores" member is an object.
SourceHasScoreDict ==
    /\ data.type = "dict"
    /\ "scores" \in DOMAIN data.items
    /\ data.items["scores"].type = "dict"

\* C3: whenever the first fenced block holds valid JSON, whatever its shape,
\* the outcome is Parsed: a score mapping was extracted, and every score the
\* source gives is in it and shown exactly as given.
C3_AnyValidJsonIsParsed ==
    (Replied /\ FirstBlockIsJson) =>
        /\ scores.type = "dict"
        /\ qualitative_feedback.type = "str"
        /\ SourceHasScoreDict =>
              \A n \in DOMAIN data.items["scores"].items \cap ScoreNames :
                  GaugeShown(n, data.items["scores"].items[n])

\* C4: whatever the reply, the run ends having shown the scorecard (its four
\* gauges) or the raw reply text, never an error message alone.
C4_ScorecardOrRawReplyAlwaysShown ==
    Replied => (CountKind("plotly_chart") >= 4 \/ RawReplyShown)

-----------------------------------------------------------------------------
(* C5 *)

\* The decoded document is an object that has no "scores" member or an
\* object-valued one.
ScoresAbsentOrDict ==
    /\ data.type = "dict"
    /\ "scores" \in DOMAIN data.items => data.items["scores"].type = "dict"

\* The score the source gives for n, 0 when it gives none.
SourceScoreOrZero(n) ==
    IF SourceHasScoreDict /\ n \in DOMAIN data.items["scores"].items
    THEN data.items["scores"].items[n]
    ELSE 0

NonEmptyDict(v) == v.type = "dict" /\ DOMAIN v.items # {}

\* C5: with "scores" absent, or lacking some of the four names, the parse
\* succeeds, all four gauges are shown, an absent score as 0, and the run
\* fails for no missing score: with a section analysis to chart it shows no
\* error at all.
C5_MissingScoresShownAsZero ==
    (Replied /\ ScoresAbsentOrDict) =>
        /\ scores.type = "dict"
        /\ qualitative_feedback.type = "str"
        /\ \A n \in ScoreNames : GaugeShown(n, SourceScoreOrZero(n))
        /\ NonEmptyDict(section_data) => ~ShownKind("error")

\* C5 witness: only Clarity_and_Formatting was given; it is shown as given
\* and the other three as 0.
C5_Witness ==
    /\ Replied
    /\ SourceHasScoreDict
    /\ DOMAIN data.items["scores"].items = {"Clarity_and_Formatting"}
    /\ GaugeShown("Clarity_and_Formatting", 11)
    /\ GaugeShown("Impact_and_Achievements", 0)
    /\ GaugeShown("ATS_Friendliness", 0)
    /\ GaugeShown("Job_Fit", 0)

-----------------------------------------------------------------------------
(* C6, C7 *)

AllWhitespace(t) == \A i \in 1..Len(t) : t[i] \in Whitespace

PdfReadFailed(f) ==
    f.type = "file" /\ f.mime = "application/pdf" /\ ~f.readable

\* Extraction returns and yields no text: None from the PDF reader's except
\* branch, or a string that is empty or all white space.
YieldsNoText(f) ==
    /\ f.type = "file"
    /\ PdfReadFailed(f) \/ (f.readable /\ AllWhitespace(f.text))

\* Extraction returns text that is more than white space.
YieldsText(f) == f.type = "file" /\ f.readable /\ ~AllWhitespace(f.text)

NothingParsed ==
    /\ response_text = None /\ data = None /\ scores = None
    /\ section_data = None /\ qualitative_feedback = None

\* C6 as stated: when extraction yields no text, the failed PDF read
\* included, exactly one error message is all that is shown, the model is
\* not called and nothing is parsed.
C6_ExactlyOneErrorOnNoText ==
    (pc = "done" /\ YieldsNoText(uploaded_file)) =>
        /\ Len(display) = 1
        /\ display[1].kind = "error"
        /\ llm_calls = 0
        /\ NothingParsed

\* C6 amended: when extraction yields no text the model is never called,
\* nothing is parsed and only error messages are shown: the could-not-extract
\* error alone for an empty or all-white-space text, and after the PDF
\* reader's own error when reading the PDF failed.
C6_OnlyErrorsOnNoText ==
    YieldsNoText(uploaded_file) =>
        /\ pc # "calling"
        /\ llm_calls = 0
        /\ NothingParsed
        /\ pc = "done" =>
              display = IF PdfReadFailed(uploaded_file)
                        THEN <<Error("Error reading PDF file"), NoTextError>>
                        ELSE <<NoTextError>>

\* C6 witness: the analysis of a PDF that could not be read is over.
C6_Witness ==
    /\ pc = "done"
    /\ PdfReadFailed(uploaded_file)
    /\ display = <<Error("Error reading PDF file"), NoTextError>>

\* C7 as stated: every analysis action calls the model exactly once.
C7_ExactlyOneCallPerAnalysis == pc = "done" => llm_calls = 1

\* C7 amended: an analysis action calls the model at most once, and once
\* exactly when a file is uploaded whose extraction returns text that is
\* more than white space; otherwise it is over without any call.
C7_AtMostOneCallPerAnalysis ==
    /\ llm_calls <= 1
    /\ pc = "done" =>
          llm_calls = IF YieldsText(uploaded_file) THEN 1 ELSE 0

\* C7 witness: the reply could not be decoded and the analysis is over with
\* its one call made.
C7_Witness ==
    /\ Replied
    /\ Shown(DecodeError)
    /\ llm_calls = 1

-----------------------------------------------------------------------------
(* C8, C9, C10 *)

\* The three headings the prompt asks for (lines 161-163), without their
\* leading glyphs.
FeedbackTitles ==
    {"Key Strengths", "Areas for Improvement", "ATS & Keyword Optimization"}

Labelled(t) == \E i \in 1..Len(display) : display[i].label = t

IsTrimOf(t, u) ==
    \E a \in 0..Len(u) : \E b \in a..Len(u) :
        /\ t = SubSeq(u, a + 1, b)
        /\ \A j \in 1..a : u[j] \in Whitespace
        /\ \A j \in (b + 1)..Len(u) : u[j] \in Whitespace
        /\ t # <<>> => (t[1] \notin Whitespace /\ t[Len(t)] \notin Whitespace)

\* C9: of the fenced blocks of a reply the first (leftmost, then shortest) is
\* the one decoded, and the feedback text is the trimmed rest of the reply
\* after that block's closing fence, later blocks included.
C9_FirstBlockDecodedRestIsFeedback ==
    (Replied /\ HasFencedBlock(response_text.s)) =>
        LET s == response_text.s
        IN \E i \in OpenAt(s) : \E k \in CloseAfter(s, i) :
              /\ IsFirstBlock(s, i, k)
              /\ IsJson(SubSeq(s, i + 3, k - 1)) <=> data # None
              /\ ~IsJson(SubSeq(s, i + 3, k - 1)) => display = <<DecodeError>>
              /\ data.type = "dict" <=> qualitative_feedback.type = "str"
              /\ qualitative_feedback.type = "str" =>
                    IsTrimOf(qualitative_feedback.s, SubSeq(s, k + 2, Len(s)))

\* C9 witness: the reply had a second fenced block, and it is in the
\* feedback text.
C9_Witness ==
    /\ Replied
    /\ qualitative_feedback.type = "str"
    /\ HasFencedBlock(qualitative_feedback.s)

\* C10: on every Parsed outcome the donut chart is drawn and the run goes on
\* to the detailed feedback, without ending in the unexpected-error handler.
C10_RenderAlwaysReachesFeedback ==
    (pc = "done" /\ scores.type = "dict") =>
        /\ Shown(Element("plotly_chart", "Resume Content Distribution", <<>>, 0))
        /\ Shown(Header("Detailed Feedback"))
        /\ ~Shown(UnexpectedError)

=============================================================================
